---- MODULE Spec2Model ----
(***************************************************************************)
(* A model of tensorboard/plugins/pr_curve/pr_curves_plugin.py: the        *)
(* PrCurvesPlugin routes (/pr_curves, /tags), is_active, and the pure      *)
(* helpers _compute_thresholds and _make_pr_entry.                         *)
(*                                                                         *)
(* Representation of Python values:                                        *)
(*  - a str is a sequence of one-character strings;                        *)
(*  - a float32 count of a PR-curve tensor is the integer number of halves *)
(*    it holds (0.5 is 1, 1.0 is 2), so that int() and astype(int) are the *)
(*    truncations they are in the code and not the identity (the counts of *)
(*    a curve written with weights are sums of weights, not whole numbers);*)
(*  - precision, recall and wall_time floats are only forwarded by the     *)
(*    code, so they are opaque tokens ("0.5", "NaN", ...);                 *)
(*  - a threshold float(v) / n is the exact fraction [num |-> v, den |-> n]*)
(*    (rounding to a double is not modelled).                              *)
(***************************************************************************)
EXTENDS Integers, Sequences, FiniteSets, TLC

VARIABLES
    multiplexer,  \* self._multiplexer: the store the plugin reads (or None)
    op,           \* the operation of the plugin that ran last
    args,         \* its arguments
    ret,          \* what it returned (or raised)
    calls         \* the runs it asked Tensors() for, in call order

vars == <<multiplexer, op, args, ret, calls>>

----------------------------------------------------------------------------
(* Bounds of the model. *)

MaxWidth == 3        \* columns of a tensor (SpecEntry)
MaxThresholds == 4   \* num_thresholds (SpecEntry)

----------------------------------------------------------------------------
(* Python helpers. *)

Min(a, b) == IF a < b THEN a ELSE b

\* seq[:end] for end >= 0
Slice(seq, end) == SubSeq(seq, 1, Min(end, Len(seq)))

\* range(a, b)
PyRange(a, b) == [i \in 1..(b - a) |-> a + i - 1]

\* int(v) and ndarray.astype(int) of a float given in halves: truncation
\* toward zero
PyInt(v) == IF v >= 0 THEN v \div 2 ELSE -((-v) \div 2)

\* float(v) / n, as an exact fraction
Frac(v, n) == [num |-> v, den |-> n]

----------------------------------------------------------------------------
(* The row layout of a PR-curve tensor (metadata.*_INDEX). *)

TRUE_POSITIVES_INDEX == 0
FALSE_POSITIVES_INDEX == 1
TRUE_NEGATIVES_INDEX == 2
FALSE_NEGATIVES_INDEX == 3
PRECISION_INDEX == 4
RECALL_INDEX == 5

\* data_array[index]: Python indexes from 0, a TLA+ sequence from 1
Row(data_array, index) == data_array[index + 1]

----------------------------------------------------------------------------
(* _compute_thresholds *)

\* the range the thresholds are computed over, shifted down by one
MutThresholdRange(num_thresholds) == PyRange(0, num_thresholds)

\* range(1, num_thresholds + 1)
ThresholdRange(num_thresholds) == PyRange(1, num_thresholds + 1)

_compute_thresholds(num_thresholds) ==
    LET r == ThresholdRange(num_thresholds)
    IN  [i \in DOMAIN r |-> Frac(r[i], num_thresholds)]

----------------------------------------------------------------------------
(* _make_pr_entry *)

\* the positives of a column, truncating after the sum instead of before
MutPositives(data_array) ==
    LET tp == Row(data_array, TRUE_POSITIVES_INDEX)
        fp == Row(data_array, FALSE_POSITIVES_INDEX)
    IN  [i \in DOMAIN tp |-> PyInt(tp[i] + fp[i])]

\* data_array[[tp_index, fp_index], :].astype(int).sum(axis=0)
Positives(data_array) ==
    LET tp == Row(data_array, TRUE_POSITIVES_INDEX)
        fp == Row(data_array, FALSE_POSITIVES_INDEX)
    IN  [i \in DOMAIN tp |-> PyInt(tp[i]) + PyInt(fp[i])]

\* the while loop of _make_pr_entry, from end_index_inclusive = e (0-based)
RECURSIVE TrimLoop(_, _)
TrimLoop(positives, e) ==
    IF e > 0 /\ positives[e + 1] = 0
    THEN TrimLoop(positives, e - 1)
    ELSE e

\* the loop without its "e > 0" guard: it may trim the first column too
RECURSIVE MutEndIndex(_)
MutEndIndex(positives) ==
    IF Len(positives) > 0 /\ positives[Len(positives)] = 0
    THEN MutEndIndex(SubSeq(positives, 1, Len(positives) - 1))
    ELSE Len(positives)

\* end_index: the exclusive cut
EndIndex(positives) == TrimLoop(positives, Len(positives) - 1) + 1

\* the thresholds handed over whole, not cut at end_index
MutTrimThresholds(thresholds, end_index) == Slice(thresholds, Len(thresholds))

\* thresholds[:end_index]
TrimThresholds(thresholds, end_index) == Slice(thresholds, end_index)

IntRow(row) == [i \in DOMAIN row |-> PyInt(row[i])]

_make_pr_entry(step, wall_time, data_array, thresholds) ==
    LET true_positives == IntRow(Row(data_array, TRUE_POSITIVES_INDEX))
        false_positives == IntRow(Row(data_array, FALSE_POSITIVES_INDEX))
        end_index == EndIndex(Positives(data_array))
    IN  [ wall_time |-> wall_time,
          step |-> step,
          precision |-> Slice(Row(data_array, PRECISION_INDEX), end_index),
          recall |-> Slice(Row(data_array, RECALL_INDEX), end_index),
          true_positives |-> Slice(true_positives, end_index),
          false_positives |-> Slice(false_positives, end_index),
          true_negatives |->
              IntRow(Slice(Row(data_array, TRUE_NEGATIVES_INDEX), end_index)),
          false_negatives |->
              IntRow(Slice(Row(data_array, FALSE_NEGATIVES_INDEX), end_index)),
          thresholds |-> TrimThresholds(thresholds, end_index) ]

----------------------------------------------------------------------------
(* Python str, None, repr and the % formatting of the error message. *)

\* None where a str is expected; no str is this sequence, a str being a
\* sequence of single characters
None == <<"None">>

\* "not x" of a str or None
Not(x) == x = None \/ x = <<>>

\* the body of repr(s): s with the quote and the backslash escaped
RECURSIVE Escaped(_, _)
Escaped(s, quote) ==
    IF s = <<>> THEN <<>>
    ELSE (IF Head(s) = quote \/ Head(s) = "\\"
          THEN <<"\\", Head(s)>>
          ELSE <<Head(s)>>) \o Escaped(Tail(s), quote)

\* repr(s) of a Python 3 str of printable characters: in single quotes, or
\* in double quotes when s holds a single quote and no double quote
PyRepr(s) ==
    LET has(c) == \E i \in DOMAIN s : s[i] = c
        quote == IF has("'") /\ ~has("\"") THEN "\"" ELSE "'"
    IN  <<quote>> \o Escaped(s, quote) \o <<quote>>

\* the message formatted with %s in place of %r
MutNoCurvesMessage(run, tag) ==
    <<"No PR curves could be found for run ">> \o run \o <<" and tag ">> \o tag

\* "No PR curves could be found for run %r and tag %r" % (run, tag)
NoCurvesMessage(run, tag) ==
    <<"No PR curves could be found for run ">> \o PyRepr(run)
        \o <<" and tag ">> \o PyRepr(tag)

\* what a call returns, or the exception it raises
Return(value) == [raised |-> "", message |-> <<>>, value |-> value]
Raise(exception, message) ==
    [raised |-> exception, message |-> message, value |-> <<>>]

----------------------------------------------------------------------------
(* The multiplexer (context.multiplexer) and what the plugin asks of it.   *)
(* A store holds its runs, and for some (run, tag) a series: the tensor    *)
(* events and the summary metadata of the tag.                             *)

\* context.multiplexer is None
NoMultiplexer ==
    [present |-> FALSE, runs |-> {}, series |-> <<>>, lists_empty |-> FALSE]

\* a store without runs; lists_empty says whether its plugin index lists
\* the runs that have no tag of the plugin (with an empty tag map)
EmptyStore(lists_empty) ==
    [present |-> TRUE, runs |-> {}, series |-> <<>>, lists_empty |-> lists_empty]

\* multiplexer.Runs()
Runs(m) == m.runs

\* multiplexer.Tensors(run, tag) raises KeyError
TensorsKeyError(m, run, tag) == <<run, tag>> \notin DOMAIN m.series

\* multiplexer.Tensors(run, tag)
Tensors(m, run, tag) == m.series[<<run, tag>>].events

\* multiplexer.SummaryMetadata(run, tag)
SummaryMetadata(m, run, tag) == m.series[<<run, tag>>].summary_metadata

\* metadata.parse_plugin_metadata(content)
parse_plugin_metadata(content) == [num_thresholds |-> content.num_thresholds]

\* multiplexer.PluginRunToTagToContent(metadata.PLUGIN_NAME): run -> tag ->
\* content
PluginRunToTagToContent(m) ==
    LET tags(run) == {p[2] : p \in {q \in DOMAIN m.series : q[1] = run}}
        listed == {run \in m.runs : m.lists_empty \/ tags(run) # {}}
    IN  [run \in listed |->
            [tag \in tags(run) |->
                m.series[<<run, tag>>].summary_metadata.plugin_data.content]]

\* tensor_util.make_tensor_proto, as the writer of the summary applies it
make_tensor_proto(array) ==
    LET w == Len(array[1])
    IN  [ shape |-> <<Len(array), w>>,
          float_val |-> [k \in 1..(Len(array) * w) |->
                            array[((k - 1) \div w) + 1][((k - 1) % w) + 1]] ]

\* tensor_util.make_ndarray(tensor_proto)
make_ndarray(tensor_proto) ==
    LET h == tensor_proto.shape[1]
        w == tensor_proto.shape[2]
    IN  [r \in 1..h |-> [c \in 1..w |-> tensor_proto.float_val[(r - 1) * w + c]]]

\* plugin_util.markdown_to_safe_html(markdown)
markdown_to_safe_html(markdown) == <<"<p>", markdown, "</p>">>

\* http_util.Respond(request, content, content_type, code): a str is
\* [str |-> TRUE, s |-> the str], an int [str |-> FALSE, i |-> the int]
StrArg(s) == [str |-> TRUE, s |-> s, i |-> 0]
IntArg(i) == [str |-> FALSE, s |-> "", i |-> i]

\* Respond's code when the caller passes none: the code of the answer that
\* carries the curves
DefaultCode == 200

Response(status, content_type, body) ==
    [raised |-> "", status |-> status, content_type |-> content_type,
     body |-> body]

\* the handler does not answer: the exception leaves it
Propagate(exception) ==
    [raised |-> exception, status |-> 0, content_type |-> StrArg(""), body |-> <<>>]

\* what Respond can do: with a str content type, the response; with
\* anything else in its place, the response as asked for or a TypeError
Respond(content, content_type, code) ==
    IF content_type.str
    THEN {Response(code, content_type, content)}
    ELSE {Response(code, content_type, content), Propagate("TypeError")}

----------------------------------------------------------------------------
(* PrCurvesPlugin *)

_process_tensor_event(event, thresholds) ==
    _make_pr_entry(event.step, event.wall_time,
                   make_ndarray(event.tensor_proto), thresholds)

\* the entries of the events, last event first
MutProcessEvents(tensor_events, thresholds) ==
    [k \in DOMAIN tensor_events |->
        _process_tensor_event(tensor_events[Len(tensor_events) + 1 - k],
                              thresholds)]

\* [self._process_tensor_event(e, thresholds) for e in tensor_events]
ProcessEvents(tensor_events, thresholds) ==
    [k \in DOMAIN tensor_events |->
        _process_tensor_event(tensor_events[k], thresholds)]

RECURSIVE ImplLoop(_, _, _, _, _, _)

\* a run without data is left out and the loop goes on
MutSkipRun(m, runs, tag, i, response_mapping, fetched) ==
    ImplLoop(m, runs, tag, i + 1, response_mapping, fetched)

\* except KeyError: raise ValueError(...)
OnKeyError(m, runs, tag, i, response_mapping, fetched) ==
    [ result |-> Raise("ValueError", NoCurvesMessage(runs[i], tag)),
      fetched |-> fetched ]

\* the loop of pr_curves_impl from runs[i] on (i from 1), with the mapping
\* built so far and the runs Tensors() was asked for so far
ImplLoop(m, runs, tag, i, response_mapping, fetched) ==
    IF i > Len(runs)
    THEN [result |-> Return(response_mapping), fetched |-> fetched]
    ELSE IF ~m.present
    THEN [result |-> Raise("AttributeError", <<>>), fetched |-> fetched]
    ELSE
        LET run == runs[i]
            asked == Append(fetched, run)
        IN  IF TensorsKeyError(m, run, tag)
            THEN OnKeyError(m, runs, tag, i, response_mapping, asked)
            ELSE
                LET tensor_events == Tensors(m, run, tag)
                    content == SummaryMetadata(m, run, tag).plugin_data.content
                    pr_curve_data == parse_plugin_metadata(content)
                    thresholds ==
                        _compute_thresholds(pr_curve_data.num_thresholds)
                    entries == ProcessEvents(tensor_events, thresholds)
                IN  ImplLoop(m, runs, tag, i + 1,
                             [r \in DOMAIN response_mapping \cup {run} |->
                                 IF r = run THEN entries
                                 ELSE response_mapping[r]],
                             asked)

pr_curves_impl(m, runs, tag) == ImplLoop(m, runs, tag, 1, <<>>, <<>>)

NoRunsMessage == <<"No runs provided when fetching PR curve data">>
NoTagMessage == <<"No tag provided when fetching PR curve data">>

\* pr_curves_route: the responses it can end with, each with the runs
\* Tensors() was asked for. request.run holds the values of "run",
\* request.tag the values of "tag" (none or one).
pr_curves_route(m, request) ==
    LET runs == request.run
        tag == IF request.tag = <<>> THEN None ELSE request.tag[1]
        With(responses, fetched) ==
            {[response |-> r, fetched |-> fetched] : r \in responses}
    IN  IF runs = <<>>
        THEN With(Respond(NoRunsMessage, IntArg(400), DefaultCode), <<>>)
        ELSE IF Not(tag)
        THEN With(Respond(NoTagMessage, IntArg(400), DefaultCode), <<>>)
        ELSE
            LET impl == pr_curves_impl(m, runs, tag)
            IN  IF impl.result.raised = "ValueError"
                THEN With(Respond(impl.result.message, StrArg("text/plain"), 400),
                          impl.fetched)
                ELSE IF impl.result.raised # ""
                THEN With({Propagate(impl.result.raised)}, impl.fetched)
                ELSE With(Respond(impl.result.value,
                                  StrArg("application/json"), DefaultCode),
                          impl.fetched)

\* no run is listed before the index is read
MutTagsResultInit(runs) == [run \in {} |-> <<>>]

\* result = {run: {} for run in runs}
TagsResultInit(runs) == [run \in runs |-> <<>>]

tags_impl(m) ==
    IF ~m.present THEN Raise("AttributeError", <<>>)
    ELSE
        LET result == TagsResultInit(Runs(m))
            mapping == PluginRunToTagToContent(m)
        IN  IF \E run \in DOMAIN mapping : run \notin DOMAIN result
            THEN Raise("KeyError", <<>>)
            ELSE Return(
                [run \in DOMAIN result |->
                    IF run \in DOMAIN mapping
                    THEN [tag \in DOMAIN mapping[run] |->
                            LET summary_metadata == SummaryMetadata(m, run, tag)
                            IN  [ displayName |-> summary_metadata.display_name,
                                  description |-> markdown_to_safe_html(
                                      summary_metadata.summary_description) ]]
                    ELSE result[run]])

tags_route(m) ==
    LET impl == tags_impl(m)
    IN  IF impl.raised # "" THEN {Propagate(impl.raised)}
        ELSE Respond(impl.value, StrArg("application/json"), DefaultCode)

\* bool(all_runs): some run is listed
MutAnyValues(all_runs) == DOMAIN all_runs # {}

\* any(six.itervalues(all_runs))
AnyValues(all_runs) == \E run \in DOMAIN all_runs : DOMAIN all_runs[run] # {}

is_active(m) ==
    IF ~m.present THEN FALSE
    ELSE AnyValues(PluginRunToTagToContent(m))

----------------------------------------------------------------------------
(* Spec: a plugin over a store that loads runs and tensor events, and the  *)
(* calls made to the plugin between the loads. The plugin keeps no state   *)
(* but the multiplexer, and a call is one step: op, args, ret and calls    *)
(* record the call being answered, until Finish forgets it.                *)

MaxRuns == 2     \* runs named in a request
MaxEvents == 2   \* tensor events in the store

RunNames == {<<"a">>, <<"'">>, <<"'", "\"">>}
TagNames == {<<"t">>, <<"'">>}

\* the summary metadata a tag is written with: its display name, its
\* description and, as the plugin data, its num_thresholds
MetadataOf(tag) ==
    IF tag = <<"t">>
    THEN [ display_name |-> <<"P", "R">>,
           summary_description |-> <<"*", "d", "*">>,
           plugin_data |-> [content |-> [num_thresholds |-> 3]] ]
    ELSE [ display_name |-> <<>>, summary_description |-> <<>>,
           plugin_data |-> [content |-> [num_thresholds |-> 2]] ]

\* the tensors written: three columns of which the last is without
\* positives, and two columns
WrittenArrays ==
    { << <<4, 2, 0>>, <<2, 0, 0>>, <<0, 2, 4>>, <<0, 2, 6>>,
         <<"0.67", "1.0", "NaN">>, <<"1.0", "0.5", "0.0">> >>,
      << <<2, 1>>, <<0, 1>>, <<6, 4>>, <<0, 2>>,
         <<"1.0", "0.5">>, <<"1.0", "0.5">> >> }

TotalEvents(m) ==
    LET RECURSIVE Sum(_)
        Sum(S) == IF S = {} THEN 0
                  ELSE LET k == CHOOSE k \in S : TRUE
                       IN  Len(m.series[k].events) + Sum(S \ {k})
    IN  Sum(DOMAIN m.series)

RequestRuns == UNION {[1..n -> RunNames] : n \in 0..MaxRuns}

Init ==
    /\ multiplexer \in {NoMultiplexer, EmptyStore(FALSE), EmptyStore(TRUE)}
    /\ op = "init"
    /\ args = <<>>
    /\ ret = <<>>
    /\ calls = <<>>

Idle ==
    /\ op' = "init"
    /\ args' = <<>>
    /\ ret' = <<>>
    /\ calls' = <<>>

\* the store finds a new run directory
AddRun ==
    /\ op = "init"
    /\ multiplexer.present
    /\ \E run \in RunNames \ multiplexer.runs :
        multiplexer' = [multiplexer EXCEPT !.runs = @ \cup {run}]
    /\ Idle

\* the store reads one more tensor event of a run's tag
AddTensorEvent ==
    /\ op = "init"
    /\ multiplexer.present
    /\ TotalEvents(multiplexer) < MaxEvents
    /\ \E run \in multiplexer.runs, tag \in TagNames, array \in WrittenArrays :
        LET key == <<run, tag>>
            old == IF key \in DOMAIN multiplexer.series
                   THEN multiplexer.series[key]
                   ELSE [events |-> <<>>, summary_metadata |-> MetadataOf(tag)]
            event == [ wall_time |-> 1000 + Len(old.events),
                       step |-> Len(old.events),
                       tensor_proto |-> make_tensor_proto(array) ]
            new == [old EXCEPT !.events = Append(@, event)]
        IN  multiplexer' =
                [multiplexer EXCEPT !.series =
                    [k \in DOMAIN @ \cup {key} |-> IF k = key THEN new ELSE @[k]]]
    /\ Idle

PrCurvesImplCall ==
    /\ op = "init"
    /\ \E runs \in RequestRuns, tag \in TagNames :
        LET impl == pr_curves_impl(multiplexer, runs, tag)
        IN  /\ op' = "pr_curves_impl"
            /\ args' = [runs |-> runs, tag |-> tag]
            /\ ret' = impl.result
            /\ calls' = impl.fetched
    /\ UNCHANGED multiplexer

PrCurvesRouteCall ==
    /\ op = "init"
    /\ \E runs \in RequestRuns,
          tag \in {<<>>} \cup {<<t>> : t \in TagNames \cup {<<>>}} :
        LET request == [run |-> runs, tag |-> tag]
        IN  \E out \in pr_curves_route(multiplexer, request) :
                /\ op' = "pr_curves_route"
                /\ args' = request
                /\ ret' = out.response
                /\ calls' = out.fetched
    /\ UNCHANGED multiplexer

TagsImplCall ==
    /\ op = "init"
    /\ op' = "tags_impl"
    /\ args' = <<>>
    /\ ret' = tags_impl(multiplexer)
    /\ calls' = <<>>
    /\ UNCHANGED multiplexer

TagsRouteCall ==
    /\ op = "init"
    /\ \E response \in tags_route(multiplexer) :
        /\ op' = "tags_route"
        /\ args' = <<>>
        /\ ret' = response
        /\ calls' = <<>>
    /\ UNCHANGED multiplexer

IsActiveCall ==
    /\ op = "init"
    /\ op' = "is_active"
    /\ args' = <<>>
    /\ ret' = is_active(multiplexer)
    /\ calls' = <<>>
    /\ UNCHANGED multiplexer

\* the call has been answered
Finish ==
    /\ op # "init"
    /\ Idle
    /\ UNCHANGED multiplexer

Next ==
    \/ AddRun
    \/ AddTensorEvent
    \/ PrCurvesImplCall
    \/ PrCurvesRouteCall
    \/ TagsImplCall
    \/ TagsRouteCall
    \/ IsActiveCall
    \/ Finish

Spec == Init /\ [][Next]_vars

----------------------------------------------------------------------------
(* Claims about the plugin over a store, checked under Spec. *)

\* the store holds tensor events for (run, tag)
HasData(run, tag) == <<run, tag>> \in DOMAIN multiplexer.series

\* the positions of runs whose run has no data for tag
Missing(runs, tag) == {i \in DOMAIN runs : ~HasData(runs[i], tag)}

FirstMissing(runs, tag) ==
    CHOOSE i \in Missing(runs, tag) : \A j \in Missing(runs, tag) : i <= j

\* C1: pr_curves_impl is all-or-nothing: when some run of the list has no
\* tensor events for the tag, the call raises (ValueError, when the plugin
\* has a store) and returns no mapping, whatever the runs before it held.
C1_AllOrNothing ==
    (op = "pr_curves_impl" /\ Missing(args.runs, args.tag) # {}) =>
        /\ ret.raised # ""
        /\ ret.value = <<>>
        /\ multiplexer.present => ret.raised = "ValueError"

\* C1's case: runs = [A, B], A with data and B without
C1_Witness ==
    /\ op = "pr_curves_impl"
    /\ Len(args.runs) = 2
    /\ HasData(args.runs[1], args.tag)
    /\ ~HasData(args.runs[2], args.tag)
    /\ calls = args.runs
    /\ ret.raised = "ValueError"

\* a /pr_curves request with several runs and a tag, to a plugin with a
\* store in which some of the runs have no data for the tag
SeveralRunsSomeMissing ==
    /\ op = "pr_curves_route"
    /\ multiplexer.present
    /\ Len(args.run) >= 2
    /\ args.tag # <<>> /\ args.tag[1] # <<>>
    /\ Missing(args.run, args.tag[1]) # {}

\* the request stopped at its first run without data: status 400, plain
\* text, and Tensors() asked for the runs up to that one and no further
AbortedAtFirstMissing ==
    LET first == FirstMissing(args.run, args.tag[1])
    IN  /\ ret.raised = ""
        /\ ret.status = 400
        /\ ret.content_type = StrArg("text/plain")
        /\ calls = SubSeq(args.run, 1, first)

InSingleQuotes(s) == <<"'">> \o s \o <<"'">>
InDoubleQuotes(s) == <<"\"">> \o s \o <<"\"">>
Holds(s, c) == \E i \in DOMAIN s : s[i] = c

Shown(s) ==
    IF ~Holds(s, "'") /\ ~Holds(s, "\\") THEN InSingleQuotes(s)
    ELSE IF ~Holds(s, "\"") /\ ~Holds(s, "\\") THEN InDoubleQuotes(s)
    ELSE InSingleQuotes(Escaped(s, "'"))

C6_MissingParameterIs400 ==
    op = "pr_curves_route" =>
        /\ args.run = <<>> =>
              /\ ret.raised = ""
              /\ ret.status = 400
              /\ ret.body = NoRunsMessage
        /\ (args.run # <<>> /\ args.tag = <<>>) =>
              /\ ret.raised = ""
              /\ ret.status = 400
              /\ ret.body = NoTagMessage

\* the tags the store holds for a run
TagsOf(run) == {tag \in TagNames : HasData(run, tag)}

\* C7: for every state of the store tags_impl returns a mapping whose keys
\* are the runs the store knows; a run without PR-curve tags is mapped to
\* an empty tag map, and each tag of a run to its display name and its
\* description (as markdown_to_safe_html renders it); no runs, {}.
C7_TagsOfEveryRun ==
    (op = "tags_impl" /\ multiplexer.present) =>
        /\ ret.raised = ""
        /\ DOMAIN ret.value = Runs(multiplexer)
        /\ Runs(multiplexer) = {} => ret.value = <<>>
        /\ \A run \in Runs(multiplexer) :
              /\ DOMAIN ret.value[run] = TagsOf(run)
              /\ TagsOf(run) = {} => ret.value[run] = <<>>
              /\ \A tag \in TagsOf(run) :
                    LET summary_metadata == multiplexer.series[<<run, tag>>].summary_metadata
                    IN  /\ ret.value[run][tag].displayName = summary_metadata.display_name
                        /\ ret.value[run][tag].description =
                              markdown_to_safe_html(summary_metadata.summary_description)

\* C7's case: a store with a run that has a tag and a run that has none
C7_Witness ==
    /\ op = "tags_impl"
    /\ multiplexer.present
    /\ \E run \in Runs(multiplexer) : TagsOf(run) # {}
    /\ \E run \in Runs(multiplexer) : TagsOf(run) = {} /\ ret.value[run] = <<>>

\* C8: is_active is true exactly when some run has some PR-curve tag; a
\* store without runs, or whose runs all have no tag, is not active.
C8_ActiveIffSomeTag ==
    op = "is_active" =>
        (ret <=> \E run \in Runs(multiplexer) : TagsOf(run) # {})

\* C8's case: the index lists runs, and every one with an empty tag map
C8_Witness ==
    /\ op = "is_active"
    /\ multiplexer.present
    /\ DOMAIN PluginRunToTagToContent(multiplexer) # {}
    /\ \A run \in Runs(multiplexer) : TagsOf(run) = {}
    /\ ret = FALSE

\* C9: in the /pr_curves response the runs that cannot be found or lack the
\* tag are left out, and the curves of the other runs are returned.
C9_MissingRunsLeftOut ==
    ( /\ op = "pr_curves_route"
      /\ multiplexer.present
      /\ args.run # <<>>
      /\ args.tag # <<>> /\ args.tag[1] # <<>> ) =>
        /\ ret.raised = ""
        /\ ret.status = DefaultCode
        /\ DOMAIN ret.body =
              {args.run[i] : i \in DOMAIN args.run \ Missing(args.run, args.tag[1])}

\* C10: when pr_curves_impl succeeds, every run asked for is mapped to one
\* entry per tensor event the store holds for (run, tag), in the store's
\* order, the k-th with the step and the wall time of the k-th event, each
\* built from the thresholds of the num_thresholds of (run, tag).
C10_OneEntryPerEvent ==
    (op = "pr_curves_impl" /\ ret.raised = "") =>
        /\ DOMAIN ret.value = {args.runs[i] : i \in DOMAIN args.runs}
        /\ \A run \in DOMAIN ret.value :
              LET series == multiplexer.series[<<run, args.tag>>]
                  thresholds == _compute_thresholds(
                      series.summary_metadata.plugin_data.content.num_thresholds)
              IN  /\ Len(ret.value[run]) = Len(series.events)
                  /\ \A k \in 1..Len(series.events) :
                        /\ ret.value[run][k].step = series.events[k].step
                        /\ ret.value[run][k].wall_time = series.events[k].wall_time
                        /\ ret.value[run][k] =
                              _make_pr_entry(series.events[k].step,
                                             series.events[k].wall_time,
                                             make_ndarray(series.events[k].tensor_proto),
                                             thresholds)

\* C10's case: a run with two events of different tensors, asked for
C10_Witness ==
    /\ op = "pr_curves_impl"
    /\ ret.raised = ""
    /\ Len(args.runs) >= 1
    /\ Len(ret.value[args.runs[1]]) = 2
    /\ ret.value[args.runs[1]][1].step = 0
    /\ ret.value[args.runs[1]][2].step = 1
    /\ Len(ret.value[args.runs[1]][1].precision)
           # Len(ret.value[args.runs[1]][2].precision)

----------------------------------------------------------------------------
(* SpecEntry: _compute_thresholds and _make_pr_entry on bounded inputs, in  *)
(* the order _process_tensor_event's caller uses them: the thresholds of a  *)
(* num_thresholds, then the entry of one tensor with those thresholds.     *)

\* float32 counts, in halves: 0.0, 0.5, 1.0
FloatCounts == {0, 1, 2}

CountRows(w) == [1..w -> FloatCounts]

\* the rows the trim does not read: true negatives, false negatives (in
\* halves), precision, recall
RestRows(w) ==
    { << [i \in 1..w |-> 2 * i], [i \in 1..w |-> 2 * (w - i)],
         [i \in 1..w |-> IF i = w THEN "NaN" ELSE "1.0"],
         [i \in 1..w |-> IF i = 1 THEN "1.0" ELSE "0.5"] >>,
      << [i \in 1..w |-> 3], [i \in 1..w |-> i],
         [i \in 1..w |-> "0.5"],
         [i \in 1..w |-> IF i = w THEN "0.0" ELSE "1.0"] >> }

DataArrays ==
    UNION { { <<tp, fp>> \o rest :
                tp \in CountRows(w), fp \in CountRows(w), rest \in RestRows(w) } :
            w \in 0..MaxWidth }

EntryInit ==
    /\ multiplexer = NoMultiplexer
    /\ op = "init"
    /\ args \in [ step : {0, 7}, wall_time : {"1.5e9"}, data_array : DataArrays,
                   num_thresholds : 0..MaxThresholds, thresholds : {<<>>} ]
    /\ ret = <<>>
    /\ calls = <<>>

ComputeThresholdsCall ==
    /\ op = "init"
    /\ op' = "_compute_thresholds"
    /\ ret' = _compute_thresholds(args.num_thresholds)
    /\ UNCHANGED <<multiplexer, args, calls>>

MakePrEntryCall ==
    /\ op = "_compute_thresholds"
    /\ op' = "_make_pr_entry"
    /\ args' = [args EXCEPT !.thresholds = ret]
    /\ ret' = _make_pr_entry(args.step, args.wall_time, args.data_array, ret)
    /\ UNCHANGED <<multiplexer, calls>>

EntryNext == ComputeThresholdsCall \/ MakePrEntryCall

SpecEntry == EntryInit /\ [][EntryNext]_vars

----------------------------------------------------------------------------
(* Claims about the pure helpers, checked under SpecEntry. *)

EntryDone == op = "_make_pr_entry"

Width(data_array) == Len(Row(data_array, TRUE_POSITIVES_INDEX))

\* the six data sequences of an entry
DataFields(e) ==
    << e.precision, e.recall, e.true_positives, e.false_positives,
       e.true_negatives, e.false_negatives >>

\* the cut the claims describe, from a per-column test of "has positives":
\* one past the last column that has positives, or 1 when none has
CutAfterLast(w, HasPositives(_)) ==
    IF \E i \in 1..w : HasPositives(i)
    THEN CHOOSE i \in 1..w :
             HasPositives(i) /\ \A j \in (i + 1)..w : ~HasPositives(j)
    ELSE 1

\* seq is the first n elements of row, each passed through Conv
IsPrefixOf(seq, row, n, Conv(_)) ==
    /\ Len(seq) = n
    /\ n <= Len(row)
    /\ \A i \in 1..n : seq[i] = Conv(row[i])

Same(v) == v

\* a Python int k holds the value of the float counted in halves as v
SameValue(k, v) == 2 * k = v

\* C3 as stated: the six data sequences and the trimmed thresholds of every
\* entry _make_pr_entry returns have one and the same length, whatever the
\* tensor's width and the thresholds passed in.
C3_AllSameLength ==
    EntryDone =>
        \A i \in 1..6 : Len(DataFields(ret)[i]) = Len(ret.thresholds)

\* C3, amended: the six data sequences of every entry have one and the same
\* length L, and the trimmed thresholds have length min(L, len(thresholds)):
\* as long as the others exactly when at least L thresholds were passed in.
C3_SameLengthUpToThresholds ==
    EntryDone =>
        LET L == Len(ret.precision)
        IN  /\ \A i \in 1..6 : Len(DataFields(ret)[i]) = L
            /\ Len(ret.thresholds) = Min(L, Len(args.thresholds))
            /\ ret.thresholds = SubSeq(args.thresholds, 1, Len(ret.thresholds))
            /\ (Len(ret.thresholds) = L) <=> (Len(args.thresholds) >= L)

\* C3's case: a tensor trimmed to fewer columns than it has, with fewer
\* thresholds than it has columns and with at least as many as are kept
C3_Witness ==
    /\ EntryDone
    /\ Len(ret.precision) = 2
    /\ Width(args.data_array) = 3
    /\ Len(args.thresholds) = 2
    /\ Len(ret.thresholds) = 2

====
